---- MODULE Spec2Model ----
(***************************************************************************)
(* Model of mangle-photos (src/src/main.rs): the main thread scans the     *)
(* current directory, spawns one rayon task per JPEG, waits on a channel   *)
(* until every task has dropped its sender, finalizes the shared zip,      *)
(* builds the axum router from the result slots and serves it.             *)
(***************************************************************************)
EXTENDS Integers, Sequences, FiniteSets, TLC

\* ------------------------------------------------------------------------
\* Bounds and the file system the program is run on
\* ------------------------------------------------------------------------

\* Largest number of directory entries in a listing.
MaxFiles == 3

\* The directory entries a listing is drawn from.  ok = FALSE is an entry
\* whose read_dir item is an Err.
Universe ==
    << [name |-> "a.jpg",         ok |-> TRUE],
       [name |-> "b.jpeg",        ok |-> TRUE],
       [name |-> "c.txt",         ok |-> TRUE],
       [name |-> "d.jpg",         ok |-> TRUE],
       [name |-> "preview_a.jpg", ok |-> TRUE],
       [name |-> "E.JPG",         ok |-> TRUE],
       [name |-> "x.jpg",         ok |-> FALSE] >>

\* Contents of the files on disk.  A JPEG starts with the SOI marker FF D8;
\* d.jpg is a file with a JPEG name and corrupt bytes.
FileBytes(name) ==
    CASE name = "a.jpg"         -> <<255, 216, 1>>
      [] name = "b.jpeg"        -> <<255, 216, 2>>
      [] name = "c.txt"         -> <<99>>
      [] name = "d.jpg"         -> <<0, 4>>
      [] name = "preview_a.jpg" -> <<255, 216, 5>>
      [] name = "E.JPG"         -> <<255, 216, 6>>
      [] OTHER                  -> <<>>

\* Directory listings: at most MaxFiles distinct entries of Universe, in any
\* order (read_dir promises no order).
Listings ==
    LET n == Len(Universe)
        Idx == UNION {[1..m -> 1..n] : m \in 0..MaxFiles}
        Inj == {s \in Idx : \A a, b \in DOMAIN s : a # b => s[a] # s[b]}
    IN  {[j \in 1..Len(s) |-> Universe[s[j]]] : s \in Inj}

\* ------------------------------------------------------------------------
\* Pure helpers
\* ------------------------------------------------------------------------

NoExt == "<none>"

RECURSIVE LastDot(_, _)
\* Index of the last '.' of s at or before position k, 0 when there is none.
LastDot(s, k) ==
    IF k = 0 THEN 0
    ELSE IF SubSeq(s, k, k) = "." THEN k
    ELSE LastDot(s, k - 1)

\* Path::extension of a file name: the part after the last '.', none when
\* there is no '.' or the only '.' is the first character.
extension(name) ==
    LET d == LastDot(name, Len(name))
    IN  IF name = ".." \/ d <= 1 THEN NoExt
        ELSE SubSeq(name, d + 1, Len(name))

\* The match arms Some("jpg" | "jpeg") of the scan and of the spawn loop.
is_jpeg_ext(name) == extension(name) \in {"jpg", "jpeg"}

RECURSIVE FilterJpeg(_)
\* filter_map over the directory entries: keeps the entries with a jpg or
\* jpeg extension, in iteration order.
FilterJpeg(entries) ==
    IF entries = <<>> THEN <<>>
    ELSE IF is_jpeg_ext(Head(entries).name)
         THEN <<Head(entries).name>> \o FilterJpeg(Tail(entries))
         ELSE FilterJpeg(Tail(entries))

\* JpegDecoder::new / scale / from_decoder succeed on a JPEG stream.
IsJpeg(bytes) == Len(bytes) >= 2 /\ bytes[1] = 255 /\ bytes[2] = 216

\* webp::Encoder::from_image(..).encode(35.0): a RIFF container around the
\* decoded picture.
EncodeWebp(bytes) == <<82, 73>> \o SubSeq(bytes, 3, Len(bytes))

preview_name(image_name) == "/preview_" \o image_name

full_name(image_name) == "/" \o image_name

\* ZipWriter::start_file: opens a new, empty entry at the end of the archive.
start_file(zip, name) == Append(zip, [name |-> name, data |-> <<>>])

\* ZipWriter::write_all: appends the bytes to the entry opened last.
write_all(zip, bytes) ==
    [zip EXCEPT ![Len(zip)].data = @ \o bytes]

\* The tuple a task stores in its slot: the name and the two handlers, each
\* handler represented by the body and Content-Type it answers with.
SharedEntry(name, preview, full) ==
    [name    |-> name,
     preview |-> [body |-> preview, ctype |-> "image/webp"],
     full    |-> [body |-> full,    ctype |-> "image/jpeg"]]

Uninit == [name |-> "<uninit>"]

NotFound == [body |-> <<>>, ctype |-> "<404>"]

\* What reading an uninitialized slot as initialized can yield when the
\* process does not fault: the bytes that were in the allocation.
Garbage ==
    LET h == [body |-> <<0>>, ctype |-> "<garbage>"]
    IN  {[name |-> n, preview |-> h, full |-> h] : n \in {"", "?"}}

\* ------------------------------------------------------------------------
\* State
\* ------------------------------------------------------------------------

VARIABLES
    dir,            \* the directory as read_dir iterates it
    readDirOk,      \* whether read_dir(".") succeeds
    pc,             \* position of the main thread / state of the process
    listdir,        \* the filtered entries
    i,              \* index of the spawn loop
    wpc,            \* position of each spawned task
    shared,         \* the result slots
    all_zip,        \* entries of the ZipWriter behind the Arc<Mutex<..>>
    lock,           \* holder of the mutex, 0 when free
    arcs,           \* tasks holding a clone of the Arc
    senders,        \* holders of a Sender of the ready channel (0 = main)
    zip_bytes,      \* the finished archive, <<>> before finish
    finished,       \* number of times finish has run
    k,              \* index of the route loop
    router,         \* route key -> handler
    home_page_body, \* the home page entries, in order
    resp            \* the last request and its response

vars == <<dir, readDirOk, pc, listdir, i, wpc, shared, all_zip, lock, arcs,
          senders, zip_bytes, finished, k, router, home_page_body, resp>>

Main == 0

Tasks == DOMAIN listdir

\* The process is running: main has neither panicked, nor been aborted, nor
\* returned.
Alive == pc \notin {"panicked", "aborted", "crashed", "stopped"}

Init ==
    /\ readDirOk \in BOOLEAN
    /\ dir \in (IF readDirOk THEN Listings ELSE {<<>>})
    /\ pc = "scan"
    /\ listdir = <<>>
    /\ i = 1
    /\ wpc = <<>>
    /\ shared = <<>>
    /\ all_zip = <<>>
    /\ lock = 0
    /\ arcs = {}
    /\ senders = {}
    /\ zip_bytes = <<>>
    /\ finished = 0
    /\ k = 1
    /\ router = <<>>
    /\ home_page_body = <<>>
    /\ resp = <<>>

\* ------------------------------------------------------------------------
\* Main thread
\* ------------------------------------------------------------------------

\* Lines 60-85: list the directory, filter, allocate the slots, create the
\* zip writer and the channel.
Scan ==
    /\ pc = "scan"
    /\ IF readDirOk /\ \A j \in DOMAIN dir : dir[j].ok
       THEN /\ listdir' = FilterJpeg(dir)
            /\ shared' = [j \in 1..Len(listdir') |-> Uninit]
            /\ wpc' = [j \in 1..Len(listdir') |-> "unspawned"]
            /\ senders' = {Main}
            /\ pc' = "spawn"
       ELSE /\ pc' = "panicked"
            /\ UNCHANGED <<listdir, shared, wpc, senders>>
    /\ UNCHANGED <<dir, readDirOk, i, all_zip, lock, arcs, zip_bytes,
                   finished, k, router, home_page_body, resp>>

\* Lines 88-171: one iteration of the spawn loop.
Spawn ==
    /\ pc = "spawn"
    /\ i <= Len(listdir)
    /\ IF is_jpeg_ext(listdir[i])
       THEN /\ arcs' = arcs \cup {i}
            /\ senders' = senders \cup {i}
            /\ wpc' = [wpc EXCEPT ![i] = "transcode"]
       ELSE UNCHANGED <<arcs, senders, wpc>>
    /\ i' = i + 1
    /\ UNCHANGED <<dir, readDirOk, pc, listdir, shared, all_zip, lock,
                   zip_bytes, finished, k, router, home_page_body, resp>>

\* Line 173: drop(ready_sender) once the loop is over.
DropReadySender ==
    /\ pc = "spawn"
    /\ i > Len(listdir)
    /\ senders' = senders \ {Main}
    /\ pc' = "recv"
    /\ UNCHANGED <<dir, readDirOk, listdir, i, wpc, shared, all_zip, lock,
                   arcs, zip_bytes, finished, k, router, home_page_body,
                   resp>>

\* recv returns (with Err, nothing is ever sent) once no Sender is left.
RecvReady == senders = {}

\* Main going on to finish the archive without waiting for the tasks.
Recv_no_wait ==
    /\ pc = "recv"
    /\ pc' = "finish"
    /\ UNCHANGED <<dir, readDirOk, listdir, i, wpc, shared, all_zip, lock,
                   arcs, senders, zip_bytes, finished, k, router,
                   home_page_body, resp>>

\* Line 174: ready_receiver.recv().
Recv ==
    /\ pc = "recv"
    /\ RecvReady
    /\ pc' = "into_inner"
    /\ UNCHANGED <<dir, readDirOk, listdir, i, wpc, shared, all_zip, lock,
                   arcs, senders, zip_bytes, finished, k, router,
                   home_page_body, resp>>

\* Arc::into_inner yields the value only when no other clone is alive.
IntoInnerSome == arcs = {}

\* Line 178: Arc::into_inner(all_zip).unwrap().into_inner().
IntoInner ==
    /\ pc = "into_inner"
    /\ pc' = IF IntoInnerSome THEN "finish" ELSE "panicked"
    /\ UNCHANGED <<dir, readDirOk, listdir, i, wpc, shared, all_zip, lock,
                   arcs, senders, zip_bytes, finished, k, router,
                   home_page_body, resp>>

\* Lines 179-183: all_zip.finish().
Finish ==
    /\ pc = "finish"
    /\ zip_bytes' = all_zip
    /\ finished' = finished + 1
    /\ k' = 1
    /\ pc' = "routes"
    /\ UNCHANGED <<dir, readDirOk, listdir, i, wpc, shared, all_zip, lock,
                   arcs, senders, router, home_page_body, resp>>

\* Router::route: panics when the path is already registered.
RouteConflict(r, key) == key \in DOMAIN r

\* Lines 189-200 for one initialized entry.
Register(init) ==
    LET fk == full_name(init.name)
        pk == preview_name(init.name)
    IN  IF RouteConflict(router, fk) \/ pk = fk
           \/ RouteConflict(router, pk)
        THEN /\ pc' = "panicked"
             /\ UNCHANGED <<router, home_page_body, k>>
        ELSE /\ router' = router @@ (fk :> init.full) @@ (pk :> init.preview)
             /\ home_page_body' =
                    Append(home_page_body,
                           [href |-> init.name, src |-> pk])
             /\ k' = k + 1
             /\ pc' = pc

\* Lines 188-201: one iteration of the loop over the slots.  A slot that was
\* never written is read as if initialized: the process faults or goes on
\* with whatever the memory held.
Routes ==
    /\ pc = "routes"
    /\ k <= Len(shared)
    /\ IF shared[k] # Uninit
       THEN Register(shared[k])
       ELSE \/ /\ pc' = "crashed"
               /\ UNCHANGED <<router, home_page_body, k>>
            \/ \E g \in Garbage : Register(g)
    /\ UNCHANGED <<dir, readDirOk, listdir, i, wpc, shared, all_zip, lock,
                   arcs, senders, zip_bytes, finished, resp>>

\* CompressionLayer::new(): SizeAbove's default minimum body size.
MinCompressSize == 32

RECURSIVE ZipSize(_)
\* Length of the finished archive: per entry a local header and a central
\* directory record, each with the name, and the data; then the end record.
ZipSize(zip) ==
    IF zip = <<>> THEN 22
    ELSE (30 + Len(Head(zip).name)) + Len(Head(zip).data)
         + (46 + Len(Head(zip).name)) + ZipSize(Tail(zip))

RECURSIVE HomeSize(_)
\* Length of home_page_doc: the template (lines 204-241) around one anchor
\* (line 199) per entry.
HomeSize(body) ==
    IF body = <<>> THEN 900
    ELSE (65 + Len(Head(body).href) + Len(Head(body).src))
         + HomeSize(Tail(body))

\* Length of the body a handler answers with.
body_size(h) ==
    CASE h.ctype = "application/zip" -> ZipSize(h.body)
      [] h.ctype = "text/html"       -> HomeSize(h.body)
      [] OTHER                       -> Len(h.body)

\* NotForContentType::IMAGES: the Content-Type starts with image/.
is_image(ctype) == Len(ctype) >= 6 /\ SubSeq(ctype, 1, 6) = "image/"

\* The layer's default predicate: no images, no bodies under the minimum size.
should_compress(h) == ~is_image(h.ctype) /\ body_size(h) >= MinCompressSize

\* The gzip stream of a body.
gzip_encode(body) == <<"gzip", body>>

\* Line 267: .layer(CompressionLayer::new()) wraps every route registered so
\* far.
compression_layer(r) ==
    [key \in DOMAIN r |->
        [body |-> r[key].body, ctype |-> r[key].ctype,
         layer |-> "compression"]]

\* Lines 203-267: the home page and the archive routes, then the layer.
FixedRoutes ==
    /\ pc = "routes"
    /\ k > Len(shared)
    /\ IF RouteConflict(router, "/") \/ RouteConflict(router, "/images.zip")
       THEN /\ pc' = "panicked"
            /\ UNCHANGED router
       ELSE /\ router' = compression_layer(
                  router
                  @@ ("/" :> [body |-> home_page_body, ctype |-> "text/html"])
                  @@ ("/images.zip" :>
                        [body |-> zip_bytes, ctype |-> "application/zip"]))
            /\ pc' = "bind"
    /\ UNCHANGED <<dir, readDirOk, listdir, i, wpc, shared, all_zip, lock,
                   arcs, senders, zip_bytes, finished, k, home_page_body,
                   resp>>

\* The keys a client asks for.
RequestKeys ==
    {"/", "/images.zip", "/nothing", "/c.txt", "/d.jpg", "/preview_d.jpg"}
    \cup {full_name(Universe[j].name) : j \in 1..2}
    \cup {preview_name(Universe[j].name) : j \in 1..2}

\* Lines 278-283: Server::bind panics when 0.0.0.0:80 cannot be bound.
Bind ==
    /\ pc = "bind"
    /\ \E bound \in BOOLEAN : pc' = IF bound THEN "serving" ELSE "panicked"
    /\ UNCHANGED <<dir, readDirOk, listdir, i, wpc, shared, all_zip, lock,
                   arcs, senders, zip_bytes, finished, k, router,
                   home_page_body, resp>>

\* Lines 283-286: the server ends with an error and expect panics.
ServerError ==
    /\ pc = "serving"
    /\ pc' = "panicked"
    /\ UNCHANGED <<dir, readDirOk, listdir, i, wpc, shared, all_zip, lock,
                   arcs, senders, zip_bytes, finished, k, router,
                   home_page_body, resp>>

\* The Accept-Encoding a client sends: none, or gzip.
AcceptEncodings == {"identity", "gzip"}

\* The route matched by GET key.
Lookup(r, key) == IF key \in DOMAIN r THEN r[key] ELSE NotFound

\* The response of a matched route: a layered route answers a client that
\* accepts gzip with the encoded body, when the predicate lets it.
Respond(h, accept) ==
    IF "layer" \in DOMAIN h /\ accept = "gzip" /\ should_compress(h)
    THEN [body |-> gzip_encode(h.body), ctype |-> h.ctype,
          encoding |-> "gzip"]
    ELSE [body |-> h.body, ctype |-> h.ctype, encoding |-> "identity"]

\* A handler that hands out its buffer instead of a copy: the body is gone
\* after the first answer.
Request_consuming ==
    /\ pc = "serving"
    /\ \E key \in RequestKeys, accept \in AcceptEncodings :
          /\ resp' = [key |-> key, accept |-> accept,
                      answer |-> Respond(Lookup(router, key), accept)]
          /\ router' = IF key \in DOMAIN router
                        THEN [router EXCEPT ![key].body = <<>>]
                        ELSE router
    /\ UNCHANGED <<dir, readDirOk, pc, listdir, i, wpc, shared, all_zip,
                   lock, arcs, senders, zip_bytes, finished, k,
                   home_page_body>>

\* Lines 279-285: the server answers one request.
Request ==
    /\ pc = "serving"
    /\ \E key \in RequestKeys, accept \in AcceptEncodings :
          resp' = [key |-> key, accept |-> accept,
                   answer |-> Respond(Lookup(router, key), accept)]
    /\ UNCHANGED <<dir, readDirOk, pc, listdir, i, wpc, shared, all_zip,
                   lock, arcs, senders, zip_bytes, finished, k, router,
                   home_page_body>>

\* Lines 270-276, 284: ctrl-c ends the server and main returns.
CtrlC ==
    /\ pc = "serving"
    /\ pc' = "stopped"
    /\ UNCHANGED <<dir, readDirOk, listdir, i, wpc, shared, all_zip, lock,
                   arcs, senders, zip_bytes, finished, k, router,
                   home_page_body, resp>>

\* ------------------------------------------------------------------------
\* Tasks
\* ------------------------------------------------------------------------

wvars == <<dir, readDirOk, listdir, i, zip_bytes, finished, k, router,
           home_page_body, resp>>

\* file_name of the task's path.
image_name(t) == listdir[t]

\* The bytes read_to_end yields for the task's file.
full(t) == FileBytes(listdir[t])

\* Transcode with the errors swallowed: the task goes on to the archive with
\* whatever it read.
Transcode_errors_ignored(t) ==
    /\ wpc[t] = "transcode"
    /\ wpc' = [wpc EXCEPT ![t] = "lock"]
    /\ UNCHANGED <<wvars, pc, shared, all_zip, lock, arcs, senders>>

\* Lines 110-141: read, decode, encode; any expect that fails panics.
Transcode(t) ==
    /\ wpc[t] = "transcode"
    /\ wpc' = [wpc EXCEPT ![t] =
                  IF IsJpeg(full(t)) THEN "lock" ELSE "unwind_sender"]
    /\ UNCHANGED <<wvars, pc, shared, all_zip, lock, arcs, senders>>

\* A mutex that excludes no one.
LockFree_no_exclusion == TRUE

\* Mutex::lock succeeds when no one holds the mutex.
LockFree == lock = 0

\* Line 145: all_zip.lock().
Lock(t) ==
    /\ wpc[t] = "lock"
    /\ LockFree
    /\ lock' = t
    /\ wpc' = [wpc EXCEPT ![t] = "start_file"]
    /\ UNCHANGED <<wvars, pc, shared, all_zip, arcs, senders>>

\* Lines 146-148: start_file.
StartFile(t) ==
    /\ wpc[t] = "start_file"
    /\ all_zip' = start_file(all_zip, image_name(t))
    /\ wpc' = [wpc EXCEPT ![t] = "write_all"]
    /\ UNCHANGED <<wvars, pc, shared, lock, arcs, senders>>

\* Line 150: write_all.
WriteAll(t) ==
    /\ wpc[t] = "write_all"
    /\ all_zip' = write_all(all_zip, full(t))
    /\ wpc' = [wpc EXCEPT ![t] = "unlock"]
    /\ UNCHANGED <<wvars, pc, shared, lock, arcs, senders>>

\* Line 151: the guard goes out of scope.
Unlock(t) ==
    /\ wpc[t] = "unlock"
    /\ lock' = 0
    /\ wpc' = [wpc EXCEPT ![t] = "slot"]
    /\ UNCHANGED <<wvars, pc, shared, all_zip, arcs, senders>>

\* The slot a task was handed (line 101).
slot_ptr(t) == t

\* Lines 153-169: slot_ptr.write(..).
SlotWrite(t) ==
    /\ wpc[t] = "slot"
    /\ shared' = [shared EXCEPT ![slot_ptr(t)] =
                     SharedEntry(image_name(t), EncodeWebp(full(t)), full(t))]
    /\ wpc' = [wpc EXCEPT ![t] = "drop_sender"]
    /\ UNCHANGED <<wvars, pc, all_zip, lock, arcs, senders>>

\* Line 170, and unwinding: the local _ready_sender is dropped.
DropSender(t) ==
    /\ wpc[t] \in {"drop_sender", "unwind_sender"}
    /\ senders' = senders \ {t}
    /\ wpc' = [wpc EXCEPT ![t] =
                  IF wpc[t] = "drop_sender" THEN "drop_arc" ELSE "unwind_arc"]
    /\ UNCHANGED <<wvars, pc, shared, all_zip, lock, arcs>>

\* Line 170, and unwinding: the captured Arc is dropped with the closure.
DropArc(t) ==
    /\ wpc[t] \in {"drop_arc", "unwind_arc"}
    /\ arcs' = arcs \ {t}
    /\ wpc' = [wpc EXCEPT ![t] =
                  IF wpc[t] = "drop_arc" THEN "done" ELSE "abort"]
    /\ UNCHANGED <<wvars, pc, shared, all_zip, lock, senders>>

\* Line 105: a panic that leaves a rayon::spawn task aborts the process.
Abort(t) ==
    /\ wpc[t] = "abort"
    /\ pc' = "aborted"
    /\ UNCHANGED <<wvars, wpc, shared, all_zip, lock, arcs, senders>>

Task(t) ==
    \/ Transcode(t)
    \/ Lock(t)
    \/ StartFile(t)
    \/ WriteAll(t)
    \/ Unlock(t)
    \/ SlotWrite(t)
    \/ DropSender(t)
    \/ DropArc(t)
    \/ Abort(t)

Next ==
    \/ Scan
    \/ Spawn
    \/ DropReadySender
    \/ Recv
    \/ IntoInner
    \/ Finish
    \/ Routes
    \/ FixedRoutes
    \/ Bind
    \/ ServerError
    \/ Request
    \/ CtrlC
    \/ \E t \in Tasks : Alive /\ Task(t)

Spec == Init /\ [][Next]_vars

\* Scheduling: the main thread keeps running until it serves, and every
\* spawned task is run by the rayon pool as long as the process lives; a
\* task waiting for the mutex gets it once it stays free.  Requests and
\* ctrl-c come from outside and are not forced.
Fairness ==
    /\ WF_vars(Scan)
    /\ WF_vars(Spawn)
    /\ WF_vars(DropReadySender)
    /\ WF_vars(Recv)
    /\ WF_vars(IntoInner)
    /\ WF_vars(Finish)
    /\ WF_vars(Routes)
    /\ WF_vars(FixedRoutes)
    /\ WF_vars(Bind)
    /\ \A t \in 1..MaxFiles : WF_vars(t \in Tasks /\ Alive /\ Task(t))

LiveSpec == Spec /\ Fairness

TypeOK ==
    /\ lock \in {0} \cup Tasks
    /\ arcs \subseteq Tasks
    /\ senders \subseteq {Main} \cup Tasks
    /\ finished \in 0..1

\* ------------------------------------------------------------------------
\* Properties
\* ------------------------------------------------------------------------

\* The tasks whose file reads and transcodes without error.
Succeeds(name) == IsJpeg(FileBytes(name))

Successes == {t \in DOMAIN listdir : Succeeds(listdir[t])}

Failures == {t \in DOMAIN listdir : ~Succeeds(listdir[t])}

EntryNames(zip) == [j \in DOMAIN zip |-> zip[j].name]

PageNames(body) == [j \in DOMAIN body |-> body[j].href]

\* The task has appended its entry and written its slot.
Completed(t) ==
    /\ shared[t] # Uninit
    /\ \E j \in DOMAIN all_zip :
          all_zip[j] = [name |-> listdir[t], data |-> FileBytes(listdir[t])]

PastBarrier == pc \in {"into_inner", "finish", "routes", "serving", "stopped"}

\* C1: main is past the barrier (recv has returned, so it finalizes, reads
\* the slots, builds the routes, serves) only when every one of the N tasks
\* has completed both its archive append and its slot write.
C1_Barrier ==
    PastBarrier => \A t \in DOMAIN listdir : Completed(t)

\* C2: in the serving phase the home page lists, in scan order, exactly the
\* images that succeeded, whatever the order the tasks completed in.
C2_PresentationOrder ==
    pc = "serving" => PageNames(home_page_body) = SelectSeq(listdir, Succeeds)

\* C3: the entries of the finalized archive are in scan order, whatever the
\* order the tasks acquired the archive in.
C3_ArchiveScanOrder ==
    finished >= 1 => EntryNames(zip_bytes) = SelectSeq(listdir, Succeeds)

\* C4: a per-item failure is not fatal: it never ends the process, and in
\* the serving phase the failed image is absent from the archive, the routes
\* and the home page while every other image is present in all three.
C4_FailureNonFatal ==
    /\ pc # "aborted"
    /\ pc = "serving" =>
          \A t \in DOMAIN listdir :
             LET n == listdir[t]
                 present ==
                    /\ \E j \in DOMAIN zip_bytes : zip_bytes[j].name = n
                    /\ full_name(n) \in DOMAIN router
                    /\ preview_name(n) \in DOMAIN router
                    /\ \E j \in DOMAIN home_page_body :
                          home_page_body[j].href = n
                 absent ==
                    /\ \A j \in DOMAIN zip_bytes : zip_bytes[j].name # n
                    /\ full_name(n) \notin DOMAIN router
                    /\ preview_name(n) \notin DOMAIN router
                    /\ \A j \in DOMAIN home_page_body :
                          home_page_body[j].href # n
             IN  IF Succeeds(n) THEN present ELSE absent

\* C5: once the archive is finalized its entry count is the number of tasks
\* that succeeded, the entry names are pairwise distinct and no task's
\* entry occurs twice.
C5_ArchiveEntries ==
    finished >= 1 =>
       /\ Len(zip_bytes) = Cardinality(Successes)
       /\ \A a, b \in DOMAIN zip_bytes :
             a # b => zip_bytes[a].name # zip_bytes[b].name
       /\ \A t \in DOMAIN listdir :
             Cardinality({j \in DOMAIN zip_bytes :
                             zip_bytes[j].name = listdir[t]}) <= 1

C5_Witness ==
    /\ finished = 1
    /\ pc = "routes"
    /\ Len(zip_bytes) = 2
    /\ Len(listdir) >= 2

\* C6: every entry of the archive holds exactly the bytes of the file it is
\* named after: at any time every entry but the one being written under the
\* mutex is complete, and every entry of the finalized archive is.
C6_EntryBytes ==
    /\ \A j \in DOMAIN all_zip :
          (j < Len(all_zip) \/ lock = 0) =>
             all_zip[j].data = FileBytes(all_zip[j].name)
    /\ finished >= 1 =>
          \A j \in DOMAIN zip_bytes :
             zip_bytes[j].data = FileBytes(zip_bytes[j].name)

C6_Witness ==
    /\ finished = 1
    /\ Len(zip_bytes) = 3
    /\ EntryNames(zip_bytes) # listdir

\* C7: during the concurrent phase no task mutates state it shares with
\* another task: the archive and the slots are changed by steps of the main
\* thread only (no step of a task changes them), and once the server has
\* started no step changes the archive, the slots or the routes.
C7_SingleWriter ==
    [][/\ \A t \in DOMAIN wpc :
             wpc'[t] # wpc[t] => all_zip' = all_zip /\ shared' = shared
       /\ pc \in {"serving", "stopped"} =>
             (/\ all_zip' = all_zip
              /\ zip_bytes' = zip_bytes
              /\ shared' = shared
              /\ router' = router)]_vars

\* C8: the archive is finalized at most once and no task starts an entry or
\* writes bytes after the finalize step.
C8_FinalizeOnce ==
    [](finished <= 1) /\ [][finished >= 1 => all_zip' = all_zip]_vars

C8_Witness ==
    /\ finished = 1
    /\ pc = "serving"
    /\ Len(zip_bytes) >= 1
    /\ zip_bytes = all_zip

\* C9: in the serving phase the number of images on the home page plus the
\* number of failed images is N, the number of candidates the scan returned.
C9_Count ==
    pc = "serving" =>
       Len(home_page_body) + Cardinality(Failures) = Len(listdir)

\* What a client reads from a response after undoing its Content-Encoding.
Content(a) == IF a.encoding = "gzip" THEN a.body[2] ELSE a.body

\* C10: in the serving phase, for every image on the home page the full
\* route answers with that image's original bytes as image/jpeg and the
\* preview route with that image's preview bytes as image/webp, the archive
\* route answers with the finalized archive as application/zip, and a key
\* that was not registered answers NotFound.
C10_Lookup ==
    pc = "serving" =>
       \A accept \in AcceptEncodings :
          /\ \A j \in DOMAIN home_page_body :
                LET n == home_page_body[j].href
                IN  /\ Respond(Lookup(router, full_name(n)), accept) =
                          [body |-> FileBytes(n), ctype |-> "image/jpeg",
                           encoding |-> "identity"]
                    /\ Respond(Lookup(router, home_page_body[j].src),
                               accept) =
                          [body |-> EncodeWebp(FileBytes(n)),
                           ctype |-> "image/webp", encoding |-> "identity"]
          /\ LET a == Respond(Lookup(router, "/images.zip"), accept)
             IN  /\ a.ctype = "application/zip"
                 /\ Content(a) = zip_bytes
          /\ \A key \in RequestKeys :
                key \notin DOMAIN router =>
                   Respond(Lookup(router, key), accept) =
                      [body |-> <<>>, ctype |-> "<404>",
                       encoding |-> "identity"]
          /\ resp # <<>> =>
                resp.answer = Respond(Lookup(router, resp.key), resp.accept)

\* C11: freezing is one-way: from the start of the server on no step changes
\* the routes, the home page list or the archive bytes, and a lookup of the
\* key of the previous request, sent with the same Accept-Encoding, gets the
\* answer the previous request got.
C11_Frozen ==
    [][(pc \in {"serving", "stopped"}) =>
          (/\ router' = router
           /\ home_page_body' = home_page_body
           /\ zip_bytes' = zip_bytes
           /\ \A key \in RequestKeys :
                 Lookup(router', key) = Lookup(router, key)
           /\ (resp # <<>> /\ resp'.key = resp.key
                 /\ resp'.accept = resp.accept) =>
                 (resp'.answer = resp.answer))]_vars

C11_Witness ==
    /\ pc = "serving"
    /\ resp # <<>>
    /\ resp.key = "/images.zip"
    /\ resp.accept = "gzip"
    /\ resp.answer.encoding = "gzip"
    /\ Len(zip_bytes) >= 1

\* The scan ended the process (nothing was listed, allocated or spawned).
ScanAborted ==
    /\ pc = "panicked"
    /\ listdir = <<>>
    /\ senders = {}
    /\ finished = 0

EntryOk(e) == e.ok

\* C12: the scan aborts startup only when the directory itself cannot be
\* listed; with an entry that cannot be read the scan goes on and returns
\* every other candidate.
C12_ScanRecovers ==
    /\ ScanAborted => ~readDirOk
    /\ (pc # "scan" /\ readDirOk) =>
          listdir = FilterJpeg(SelectSeq(dir, EntryOk))

UpperChars == "ABCDEFGHIJKLMNOPQRSTUVWXYZ"

LowerChars == "abcdefghijklmnopqrstuvwxyz"

lower_char(c) ==
    IF \E j \in 1..Len(UpperChars) : SubSeq(UpperChars, j, j) = c
    THEN LET j == CHOOSE j \in 1..Len(UpperChars) :
                     SubSeq(UpperChars, j, j) = c
         IN  SubSeq(LowerChars, j, j)
    ELSE c

RECURSIVE to_lower(_)
to_lower(str) ==
    IF Len(str) = 0 THEN ""
    ELSE lower_char(SubSeq(str, 1, 1)) \o to_lower(Tail(str))

JpegSuffix(e) == to_lower(extension(e.name)) \in {"jpg", "jpeg"}

\* C13: the scan returns exactly the entries whose extension is jpg or jpeg
\* in any letter case, in directory-iteration order.
C13_CaseInsensitive ==
    (pc # "scan" /\ ~ScanAborted) =>
       listdir = [j \in DOMAIN SelectSeq(dir, JpegSuffix) |->
                     SelectSeq(dir, JpegSuffix)[j].name]

\* Every scanned file transcodes without error.
NoFailure == \A t \in DOMAIN listdir : Succeeds(listdir[t])

\* C14: when main has passed the barrier no task holds a clone of the Arc
\* any more, so Arc::into_inner(..).unwrap() never panics; stated for the
\* builds in which every task ran to its end.
C14_IntoInnerSucceeds ==
    NoFailure =>
       /\ pc = "into_inner" => arcs = {}
       /\ ~(pc = "panicked" /\ arcs # {})

\* C15: every slot is handed to the task of the same scan index and to no
\* other, the spawn loop skips no entry, no slot is unwritten when main
\* reads it, and a slot is written once, by its own task.
C15_Slots ==
    /\ [](/\ \A t, u \in DOMAIN wpc :
                /\ slot_ptr(t) \in DOMAIN shared
                /\ t # u => slot_ptr(t) # slot_ptr(u)
          /\ \A t \in DOMAIN wpc : t < i => wpc[t] # "unspawned"
          /\ (pc = "routes" /\ k <= Len(shared)) => shared[k] # Uninit)
    /\ [][\A j \in DOMAIN shared :
             (j \in DOMAIN shared' /\ shared'[j] # shared[j]) =>
                (/\ shared[j] = Uninit
                 /\ wpc[j] = "slot"
                 /\ wpc'[j] = "drop_sender")]_vars

\* The keys route registration is called with for a scanned list.
ImageKeys(names) ==
    {<<j, "full", full_name(names[j])>> : j \in DOMAIN names}
    \cup {<<j, "preview", preview_name(names[j])>> : j \in DOMAIN names}

\* C16: the keys registered for distinct scanned names are pairwise distinct
\* and differ from the fixed keys, so route registration never meets a key
\* that is already registered.
C16_DistinctKeys ==
    /\ \A a, b \in ImageKeys(listdir) :
          /\ a # b => a[3] # b[3]
          /\ a[3] \notin {"/", "/images.zip"}
    /\ ~(/\ pc = "panicked"
         /\ finished >= 1
         /\ "/images.zip" \notin DOMAIN router)

\* C17: the build terminates under fair scheduling: when every transcode
\* ends without error each task that waits for the mutex gets and releases
\* it, and main, once it spawns, passes the barrier and gets to starting the
\* server; with no candidate the receive returns at once.
C17_Terminates ==
    /\ \A t \in 1..MaxFiles :
          (NoFailure /\ t \in DOMAIN wpc /\ wpc[t] = "lock")
             ~> (t \in DOMAIN wpc /\ wpc[t] = "slot")
    /\ (pc = "spawn" /\ NoFailure) ~> (pc = "into_inner")
    /\ (pc = "spawn" /\ NoFailure) ~> (pc = "bind")
    /\ [](pc = "recv" /\ listdir = <<>> => RecvReady)
====
